---- MODULE Spec2Model ----
(***************************************************************************)
(* Gear shifting sequence generator (shiftseq.py) and gear combination     *)
(* calculator (gearcombo.py).                                              *)
(*                                                                         *)
(* Gear ratios are Python floats front / float( rear ); they are modelled  *)
(* as exact rationals [n |-> numerator, d |-> denominator] with d > 0,     *)
(* compared by cross multiplication.  Coordinates are 0-based index pairs  *)
(* <<front index, rear index>> as in the source; Python's None is the      *)
(* empty tuple.                                                            *)
(***************************************************************************)
EXTENDS Integers, Sequences, FiniteSets, TLC

\* ------------------------------------------------------------------------
\* Bounds of the model
RatioDen    == 4     \* requested ratios are k / RatioDen ...
MaxRatioNum == 17    \* ... for k in -1 .. MaxRatioNum
MaxHuge     == 3     \* and Sentinel + k for k in 0 .. MaxHuge

\* ------------------------------------------------------------------------
\* Program constants
Sentinel == 999999   \* min_delta = 999999.0

\* _FRONT_COGS and _REAR_COGS as the source sets them.
DefaultCogs == [ front |-> <<38, 30>>, rear |-> <<28, 23, 19, 16>> ]

\* Values of the same two module constants: the one of the source and two
\* further cog sets whose tables hold equal ratios on a diagonal, which the
\* table of the source does not.
CogSets ==
    { DefaultCogs,
      [ front |-> <<30, 20>>,     rear |-> <<30, 20>> ],
      [ front |-> <<44, 32, 22>>, rear |-> <<11, 16, 22>> ] }

None == << >>

Range(s) == { s[i] : i \in 1..Len(s) }

\* ------------------------------------------------------------------------
\* Float arithmetic as exact rationals
Rat(a, b)  == [ n |-> a, d |-> b ]
Less(a, b) == a.n * b.d < b.n * a.d
Leq(a, b)  == a.n * b.d <= b.n * a.d
Sub(a, b)  == [ n |-> a.n * b.d - b.n * a.d, d |-> a.d * b.d ]
Zero       == Rat(0, 1)

Abs(i) == IF i < 0 THEN -i ELSE i

\* Requested ratios: a grid of small values (zero and a negative one
\* included), the two values of the documented examples, and values around
\* the sentinel.
Ratios ==
    { Rat(k, RatioDen) : k \in -1..MaxRatioNum }
      \cup { Rat(3, 2), Rat(19, 10) }
      \cup { Rat(Sentinel + k, 1) : k \in 0..MaxHuge }

\* ------------------------------------------------------------------------
\* _combos: the table of all gearing combinations as gear ratios
BuildCombos(fronts, rears) ==
    [ f \in 1..Len(fronts) |->
        [ r \in 1..Len(rears) |-> Rat(fronts[f], rears[r]) ] ]

VARIABLES
    FRONT_COGS,   \* front cog tooth counts
    REAR_COGS,    \* rear cog tooth counts
    combos,       \* _combos
    ratio,        \* argument of generate_shifts and compute_combo
    ifront,       \* argument of generate_shifts
    irear,        \* argument of generate_shifts
    pc,           \* position in generate_shifts
    err,          \* exception raised by generate_shifts ("none" if none)
    bound,        \* local names of generate_shifts that are bound
    min_delta,    \* minimum ratio delta for goal ratio
    origin,       \* origin coordinate or None
    goal,         \* goal coordinate or None
    findex,       \* outer loop index of the scan
    rindex,       \* inner loop index of the scan
    sequence,     \* the list of shift steps (None before it is created)
    combo,        \* the coordinate the walk is at
    result,       \* value returned by generate_shifts
    lookups,      \* index pairs find_next has read _combos at
    cc_pc,        \* position in compute_combo
    cc_result     \* value returned by compute_combo

vars == << FRONT_COGS, REAR_COGS, combos, ratio, ifront, irear, pc, err,
           bound, min_delta, origin, goal, findex, rindex, sequence, combo,
           result, lookups, cc_pc, cc_result >>

cfg  == << FRONT_COGS, REAR_COGS, combos, ratio, ifront, irear >>
scan == << min_delta, origin, goal, findex, rindex >>
walk == << sequence, combo, result, lookups >>
cc   == << cc_pc, cc_result >>

F == Len(FRONT_COGS)
R == Len(REAR_COGS)

\* ------------------------------------------------------------------------
\* Python list indexing: -len <= i < len is accepted, negative indexes count
\* from the end, anything else raises IndexError.
Indexable(y, x) == /\ -F <= y /\ y < F
                   /\ -R <= x /\ x < R
PyPos(i, len)   == IF i < 0 THEN i + len + 1 ELSE i + 1
Lookup(y, x)    == combos[PyPos(y, F)][PyPos(x, R)]

\* ------------------------------------------------------------------------
\* find_next: the result, the table entries read and the exception raised
find_next_both(curr_y, curr_x, final_y, final_x) ==
    LET next_y == IF curr_y < final_y THEN curr_y + 1
                  ELSE IF curr_y > final_y THEN curr_y - 1
                  ELSE curr_y
        next_x == IF curr_x < final_x THEN curr_x + 1
                  ELSE IF curr_x > final_x THEN curr_x - 1
                  ELSE curr_x
    IN  [ combo |-> <<next_y, next_x>>, reads |-> {}, err |-> "none" ]

find_next_or(curr_y, curr_x, final_y, final_x) ==
    LET next_y == IF curr_y < final_y THEN curr_y + 1
                  ELSE IF curr_y > final_y THEN curr_y - 1
                  ELSE curr_y
        next_x == IF curr_x < final_x THEN curr_x + 1
                  ELSE IF curr_x > final_x THEN curr_x - 1
                  ELSE curr_x
        reads  == { <<curr_y, next_x>>, <<next_y, curr_x>> }
    IN  IF (next_y # curr_y) \/ (next_x # curr_x)
        THEN IF ~ (Indexable(curr_y, next_x) /\ Indexable(next_y, curr_x))
             THEN [ combo |-> None, reads |-> reads, err |-> "IndexError" ]
             ELSE LET delta_x == Lookup(curr_y, next_x)
                      delta_y == Lookup(next_y, curr_x)
                  IN  [ combo |-> IF Less(delta_x, delta_y)
                                  THEN <<curr_y, next_x>>
                                  ELSE <<next_y, curr_x>>,
                        reads |-> reads,
                        err   |-> "none" ]
        ELSE [ combo |-> <<next_y, next_x>>, reads |-> {}, err |-> "none" ]

find_next_leq(curr_y, curr_x, final_y, final_x) ==
    LET next_y == IF curr_y < final_y THEN curr_y + 1
                  ELSE IF curr_y > final_y THEN curr_y - 1
                  ELSE curr_y
        next_x == IF curr_x < final_x THEN curr_x + 1
                  ELSE IF curr_x > final_x THEN curr_x - 1
                  ELSE curr_x
        reads  == { <<curr_y, next_x>>, <<next_y, curr_x>> }
    IN  IF (next_y # curr_y) /\ (next_x # curr_x)
        THEN IF ~ (Indexable(curr_y, next_x) /\ Indexable(next_y, curr_x))
             THEN [ combo |-> None, reads |-> reads, err |-> "IndexError" ]
             ELSE LET delta_x == Lookup(curr_y, next_x)
                      delta_y == Lookup(next_y, curr_x)
                  IN  [ combo |-> IF Leq(delta_x, delta_y)
                                  THEN <<curr_y, next_x>>
                                  ELSE <<next_y, curr_x>>,
                        reads |-> reads,
                        err   |-> "none" ]
        ELSE [ combo |-> <<next_y, next_x>>, reads |-> {}, err |-> "none" ]

find_next_away(curr_y, curr_x, final_y, final_x) ==
    LET next_y == IF curr_y < final_y THEN curr_y + 1
                  ELSE IF curr_y > final_y THEN curr_y - 1
                  ELSE curr_y
        next_x == IF curr_x < final_x THEN curr_x + 1
                  ELSE IF curr_x > final_x THEN curr_x + 1
                  ELSE curr_x
        reads  == { <<curr_y, next_x>>, <<next_y, curr_x>> }
    IN  IF (next_y # curr_y) /\ (next_x # curr_x)
        THEN IF ~ (Indexable(curr_y, next_x) /\ Indexable(next_y, curr_x))
             THEN [ combo |-> None, reads |-> reads, err |-> "IndexError" ]
             ELSE LET delta_x == Lookup(curr_y, next_x)
                      delta_y == Lookup(next_y, curr_x)
                  IN  [ combo |-> IF Less(delta_x, delta_y)
                                  THEN <<curr_y, next_x>>
                                  ELSE <<next_y, curr_x>>,
                        reads |-> reads,
                        err   |-> "none" ]
        ELSE [ combo |-> <<next_y, next_x>>, reads |-> {}, err |-> "none" ]

find_next(curr_y, curr_x, final_y, final_x) ==
    LET next_y == IF curr_y < final_y THEN curr_y + 1
                  ELSE IF curr_y > final_y THEN curr_y - 1
                  ELSE curr_y
        next_x == IF curr_x < final_x THEN curr_x + 1
                  ELSE IF curr_x > final_x THEN curr_x - 1
                  ELSE curr_x
        reads  == { <<curr_y, next_x>>, <<next_y, curr_x>> }
    IN  IF (next_y # curr_y) /\ (next_x # curr_x)
        THEN IF ~ (Indexable(curr_y, next_x) /\ Indexable(next_y, curr_x))
             THEN [ combo |-> None, reads |-> reads, err |-> "IndexError" ]
             ELSE LET delta_x == Lookup(curr_y, next_x)
                      delta_y == Lookup(next_y, curr_x)
                  IN  [ combo |-> IF Less(delta_x, delta_y)
                                  THEN <<curr_y, next_x>>
                                  ELSE <<next_y, curr_x>>,
                        reads |-> reads,
                        err   |-> "none" ]
        ELSE [ combo |-> <<next_y, next_x>>, reads |-> {}, err |-> "none" ]

\* ------------------------------------------------------------------------
\* compute_combo (gearcombo.py): the scan over all combinations, k counting
\* the combinations already visited, front-major
RECURSIVE combo_scan(_, _, _, _)
combo_scan(goal_ratio, k, delta, best) ==
    IF k = F * R THEN best
    ELSE LET front         == FRONT_COGS[(k \div R) + 1]
             rear          == REAR_COGS[(k % R) + 1]
             current_ratio == Rat(front, rear)
             d             == Sub(goal_ratio, current_ratio)
         IN  IF Leq(Zero, d) /\ Less(d, delta)
             THEN combo_scan(goal_ratio, k + 1, d, <<front, rear>>)
             ELSE combo_scan(goal_ratio, k + 1, delta, best)

compute_combo(goal_ratio) == combo_scan(goal_ratio, 0, Rat(Sentinel, 1), <<0, 0>>)

\* ------------------------------------------------------------------------
\* The state at the call of generate_shifts( ratio, ifront, irear ), the
\* module constants being those of the cog set cs
InitWith(cs) ==
    /\ FRONT_COGS = cs.front
    /\ REAR_COGS  = cs.rear
    /\ combos     = BuildCombos(cs.front, cs.rear)
    /\ ratio  \in Ratios
    /\ ifront \in Range(cs.front) \cup {17}
    /\ irear  \in Range(cs.rear) \cup {17}
    /\ pc        = "check_ratio"
    /\ err       = "none"
    /\ bound     = {"ratio", "ifront", "irear"}
    /\ min_delta = Rat(Sentinel, 1)
    /\ origin    = None
    /\ goal      = None
    /\ findex    = 0
    /\ rindex    = 0
    /\ sequence  = None
    /\ combo     = None
    /\ result    = None
    /\ lookups   = {}
    /\ cc_pc     = "call"
    /\ cc_result = None

\* The program as it is in the source
Init == InitWith(DefaultCogs)

\* The program with any of the cog sets
InitCogs == \E cs \in CogSets : InitWith(cs)

\* The exception of  raise ValueError( fmt.format( name ) ): the argument is
\* evaluated first, and reading a local name that is not bound yet raises
\* UnboundLocalError instead.
RaiseValueError(name) ==
    IF name \in bound THEN "ValueError" ELSE "UnboundLocalError"

\* if ratio <= 0.0: raise ValueError( ... .format( ratio ) )
CheckRatio ==
    /\ pc = "check_ratio"
    /\ IF Leq(ratio, Zero)
       THEN /\ pc'  = "raised"
            /\ err' = RaiseValueError("ratio")
       ELSE /\ pc'  = "check_front"
            /\ err' = err
    /\ UNCHANGED << cfg, bound, scan, walk, cc >>

\* if ifront not in _FRONT_COGS: raise ValueError( ... .format( front ) )
CheckFront ==
    /\ pc = "check_front"
    /\ IF ifront \notin Range(FRONT_COGS)
       THEN /\ pc'  = "raised"
            /\ err' = RaiseValueError("front")
       ELSE /\ pc'  = "check_rear"
            /\ err' = err
    /\ UNCHANGED << cfg, bound, scan, walk, cc >>

\* if irear not in _REAR_COGS: raise ValueError( ... .format( rear ) );
\* then the initialisation of min_delta, origin and goal
CheckRear ==
    /\ pc = "check_rear"
    /\ IF irear \notin Range(REAR_COGS)
       THEN /\ pc'  = "raised"
            /\ err' = RaiseValueError("rear")
            /\ UNCHANGED << bound, scan >>
       ELSE /\ pc'  = "scan"
            /\ err' = err
            /\ min_delta' = Rat(Sentinel, 1)
            /\ origin'    = None
            /\ goal'      = None
            /\ findex'    = 0
            /\ rindex'    = 0
            /\ bound'     = bound \cup {"min_delta", "origin", "goal"}
    /\ UNCHANGED << cfg, walk, cc >>

\* One iteration of the inner loop over the gear combinations
ScanStep ==
    /\ pc = "scan"
    /\ findex < F
    /\ LET front == FRONT_COGS[findex + 1]
           rear  == REAR_COGS[rindex + 1]
           delta == Sub(ratio, Rat(front, rear))
       IN  /\ origin' = IF (front = ifront) /\ (rear = irear)
                        THEN <<findex, rindex>>
                        ELSE origin
           /\ IF Leq(Zero, delta) /\ Less(delta, min_delta)
              THEN /\ min_delta' = delta
                   /\ goal'      = <<findex, rindex>>
              ELSE UNCHANGED << min_delta, goal >>
    /\ IF rindex + 1 < R
       THEN /\ rindex' = rindex + 1
            /\ findex' = findex
       ELSE /\ rindex' = 0
            /\ findex' = findex + 1
    /\ bound' = bound \cup {"findex", "front", "rindex", "rear", "delta"}
    /\ pc'    = IF findex' = F THEN "compare" ELSE "scan"
    /\ UNCHANGED << cfg, err, walk, cc >>

\* if origin == goal: return [] ; else sequence = [ origin ]
CheckShift_twice ==
    /\ pc = "compare"
    /\ IF origin = goal
       THEN /\ result'   = << >>
            /\ sequence' = sequence
            /\ pc'       = "returned"
       ELSE /\ sequence' = << origin, origin >>
            /\ result'   = result
            /\ pc'       = "first"
    /\ bound' = IF origin = goal THEN bound ELSE bound \cup {"sequence"}
    /\ UNCHANGED << cfg, err, scan, combo, lookups, cc >>

CheckShift_noorigin ==
    /\ pc = "compare"
    /\ IF origin = goal
       THEN /\ result'   = << >>
            /\ sequence' = sequence
            /\ pc'       = "returned"
       ELSE /\ sequence' = << >>
            /\ result'   = result
            /\ pc'       = "first"
    /\ bound' = IF origin = goal THEN bound ELSE bound \cup {"sequence"}
    /\ UNCHANGED << cfg, err, scan, combo, lookups, cc >>

CheckShift_single ==
    /\ pc = "compare"
    /\ IF origin = goal
       THEN /\ result'   = << origin >>
            /\ sequence' = sequence
            /\ pc'       = "returned"
       ELSE /\ sequence' = << origin >>
            /\ result'   = result
            /\ pc'       = "first"
    /\ bound' = IF origin = goal THEN bound ELSE bound \cup {"sequence"}
    /\ UNCHANGED << cfg, err, scan, combo, lookups, cc >>

CheckShift ==
    /\ pc = "compare"
    /\ IF origin = goal
       THEN /\ result'   = << >>
            /\ sequence' = sequence
            /\ pc'       = "returned"
       ELSE /\ sequence' = << origin >>
            /\ result'   = result
            /\ pc'       = "first"
    /\ bound' = IF origin = goal THEN bound ELSE bound \cup {"sequence"}
    /\ UNCHANGED << cfg, err, scan, combo, lookups, cc >>

\* combo = find_next( *( origin + goal ) ) ; sequence.append( combo )
\* origin + goal raises TypeError when either is None.
FirstStep ==
    /\ pc = "first"
    /\ IF origin = None \/ goal = None
       THEN /\ pc'  = "raised"
            /\ err' = "TypeError"
            /\ UNCHANGED << sequence, combo, lookups, bound >>
       ELSE LET nxt == find_next(origin[1], origin[2], goal[1], goal[2])
            IN  /\ lookups' = lookups \cup nxt.reads
                /\ IF nxt.err # "none"
                   THEN /\ pc'  = "raised"
                        /\ err' = nxt.err
                        /\ UNCHANGED << sequence, combo, bound >>
                   ELSE /\ combo'    = nxt.combo
                        /\ sequence' = Append(sequence, nxt.combo)
                        /\ bound'    = bound \cup {"combo"}
                        /\ pc'       = "loop"
                        /\ err'      = err
    /\ UNCHANGED << cfg, scan, result, cc >>

\* while combo != goal: combo = find_next( *( combo + goal ) ) ;
\* sequence.append( combo ) ; and after the loop, return sequence
LoopStep ==
    /\ pc = "loop"
    /\ IF combo # goal
       THEN LET nxt == find_next(combo[1], combo[2], goal[1], goal[2])
            IN  /\ lookups' = lookups \cup nxt.reads
                /\ result'  = result
                /\ IF nxt.err # "none"
                   THEN /\ pc'  = "raised"
                        /\ err' = nxt.err
                        /\ UNCHANGED << sequence, combo >>
                   ELSE /\ combo'    = nxt.combo
                        /\ sequence' = Append(sequence, nxt.combo)
                        /\ pc'       = "loop"
                        /\ err'      = err
       ELSE /\ result' = sequence
            /\ pc'     = "returned"
            /\ UNCHANGED << sequence, combo, lookups, err >>
    /\ UNCHANGED << cfg, scan, bound, cc >>

\* compute_combo( ratio ) of gearcombo.py, on the same cog set
ComputeCombo ==
    /\ cc_pc = "call"
    /\ IF Leq(ratio, Zero)
       THEN /\ cc_pc'     = "raised"
            /\ cc_result' = cc_result
       ELSE /\ cc_pc'     = "returned"
            /\ cc_result' = compute_combo(ratio)
    /\ UNCHANGED << cfg, pc, err, bound, scan, walk >>

Next ==
    \/ CheckRatio
    \/ CheckFront
    \/ CheckRear
    \/ ScanStep
    \/ CheckShift
    \/ FirstStep
    \/ LoopStep
    \/ ComputeCombo

Spec == Init /\ [][Next]_vars

SpecCogs == InitCogs /\ [][Next]_vars

\* ------------------------------------------------------------------------
\* Properties.  Ratios in the properties are computed from the tooth
\* counts, not read from the table.
Coords       == (0..(F - 1)) \X (0..(R - 1))
TrueRatio(c) == Rat(FRONT_COGS[c[1] + 1], REAR_COGS[c[2] + 1])
IndexOf(s, v) == CHOOSE i \in 0..(Len(s) - 1) : s[i + 1] = v
Dist(a, b)   == Abs(a[1] - b[1]) + Abs(a[2] - b[2])
Toward(c, g) == IF c < g THEN c + 1 ELSE IF c > g THEN c - 1 ELSE c
Between(v, a, b) == (a <= v /\ v <= b) \/ (b <= v /\ v <= a)
InRect(c)    == Between(c[1], origin[1], goal[1]) /\ Between(c[2], origin[2], goal[2])
InGrid(c)    == c \in Coords
ScanComplete == findex = F
ExistsCandidate   == \E c \in Coords : Leq(TrueRatio(c), ratio)
IsLargestBelow(r) ==
    /\ Leq(r, ratio)
    /\ \A c \in Coords : Leq(TrueRatio(c), ratio) => Leq(TrueRatio(c), r)
Diagonal(c)  == goal # None /\ c[1] # goal[1] /\ c[2] # goal[2]
RearMove(c)  == << c[1], Toward(c[2], goal[2]) >>
FrontMove(c) == << Toward(c[1], goal[1]), c[2] >>

\* C1: whenever some combination has a ratio <= the requested ratio, the
\* goal of generate_shifts and the combination returned by compute_combo
\* have the largest ratio that is <= the requested ratio.
ClosestRatioSearch ==
    /\ (ScanComplete /\ ExistsCandidate) =>
          (goal # None /\ IsLargestBelow(TrueRatio(goal)))
    /\ (cc_pc = "returned" /\ ExistsCandidate) =>
          /\ \E c \in Coords :
                cc_result = << FRONT_COGS[c[1] + 1], REAR_COGS[c[2] + 1] >>
          /\ IsLargestBelow(Rat(cc_result[1], cc_result[2]))

\* C2: generate_shifts never raises once the sequence list exists.
NoPartialFailure ==
    (pc = "raised") => (sequence = None)

\* C3: with a positive ratio and an initial tooth count that is not in the
\* cog set, generate_shifts raises ValueError, before the search starts.
InvalidOriginRaisesValueError ==
    ( /\ pc = "raised"
      /\ Less(Zero, ratio)
      /\ (ifront \notin Range(FRONT_COGS) \/ irear \notin Range(REAR_COGS)) )
    => ( /\ err = "ValueError"
         /\ findex = 0 /\ rindex = 0
         /\ goal = None /\ sequence = None )

\* C4 as stated: the returned sequence has at most (F-1)+(R-1) entries.
LengthBound ==
    (pc = "returned") => (Len(result) <= (F - 1) + (R - 1))

\* C4 as amended: the returned sequence has at most (F-1)+(R-1)+1 entries,
\* the origin and at most (F-1)+(R-1) shifts.
LengthBoundWithOrigin ==
    (pc = "returned") => (Len(result) <= (F - 1) + (R - 1) + 1)

LengthBoundReached ==
    /\ pc = "returned"
    /\ Len(result) = (F - 1) + (R - 1) + 1

\* C5: consecutive coordinates of the sequence differ by exactly one on
\* exactly one index and are equal on the other.
SingleAxisUnitSteps ==
    /\ \A i \in 1..(Len(sequence) - 1) :
          LET a == sequence[i]
              b == sequence[i + 1]
          IN  \/ (Abs(a[1] - b[1]) = 1 /\ a[2] = b[2])
              \/ (a[1] = b[1] /\ Abs(a[2] - b[2]) = 1)
    /\ (pc = "returned" /\ result # << >>) => (result = sequence)

BothAxesShifted ==
    /\ pc = "returned"
    /\ Len(result) >= 4
    /\ result[1][1] # result[Len(result)][1]
    /\ result[1][2] # result[Len(result)][2]

\* C6: a non-empty returned sequence starts at the index pair of
\* (ifront, irear) and ends at the goal of the closest-ratio search.
Endpoints ==
    (pc = "returned" /\ result # << >>) =>
        /\ result[1] = << IndexOf(FRONT_COGS, ifront), IndexOf(REAR_COGS, irear) >>
        /\ result[Len(result)] = goal

\* The second documented example: ratio 1.9 from (38, 28).
ExampleOnePointNine ==
    /\ pc = "returned"
    /\ FRONT_COGS = <<38, 30>>
    /\ ratio = Rat(19, 10) /\ ifront = 38 /\ irear = 28
    /\ result = << <<0, 0>>, <<1, 0>>, <<1, 1>>, <<1, 2>>, <<1, 3>> >>

\* C7: the returned sequence is empty exactly when the origin is the goal,
\* and it never has a single entry; ratio 1.5 from (38, 28) returns [].
NoShiftCase ==
    /\ (pc = "returned") =>
          /\ (result = << >>) <=>
                (goal = << IndexOf(FRONT_COGS, ifront), IndexOf(REAR_COGS, irear) >>)
          /\ Len(result) # 1
    /\ ( /\ pc \in {"returned", "raised"}
         /\ FRONT_COGS = <<38, 30>>
         /\ ratio = Rat(3, 2) /\ ifront = 38 /\ irear = 28 )
       => (pc = "returned" /\ result = << >>)

ExampleOnePointFive ==
    /\ pc = "returned"
    /\ FRONT_COGS = <<38, 30>>
    /\ ratio = Rat(3, 2) /\ ifront = 38 /\ irear = 28
    /\ result = << >>

\* C8 as stated: from a coordinate that differs from the goal on both
\* indexes the walk takes the front move only if its ratio is strictly
\* smaller than the rear move's, and the rear move otherwise.
DiagonalPrefersRear ==
    \A i \in 1..(Len(sequence) - 1) :
        Diagonal(sequence[i]) =>
            sequence[i + 1] =
                IF Less(TrueRatio(FrontMove(sequence[i])), TrueRatio(RearMove(sequence[i])))
                THEN FrontMove(sequence[i])
                ELSE RearMove(sequence[i])

\* C8 as amended: from a coordinate that differs from the goal on both
\* indexes the walk moves exactly one axis, the one with the smaller
\* resulting ratio: the rear move only if its ratio is strictly smaller
\* than the front move's, and the front move otherwise (also on equality).
DiagonalPrefersFront ==
    \A i \in 1..(Len(sequence) - 1) :
        Diagonal(sequence[i]) =>
            sequence[i + 1] =
                IF Less(TrueRatio(RearMove(sequence[i])), TrueRatio(FrontMove(sequence[i])))
                THEN RearMove(sequence[i])
                ELSE FrontMove(sequence[i])

DiagonalTie ==
    \E i \in 1..(Len(sequence) - 1) :
        /\ Diagonal(sequence[i])
        /\ ~ Less(TrueRatio(RearMove(sequence[i])), TrueRatio(FrontMove(sequence[i])))
        /\ ~ Less(TrueRatio(FrontMove(sequence[i])), TrueRatio(RearMove(sequence[i])))
        /\ sequence[i + 1] = FrontMove(sequence[i])

\* C9: every step of the walk reduces the Manhattan distance to the goal by
\* exactly one, so the walk never raises, never visits a coordinate twice,
\* has made at most |delta_f| + |delta_r| steps, and returns after exactly
\* that many.
WalkProgress ==
    (origin # None /\ goal # None /\ ScanComplete) =>
        /\ pc # "raised"
        /\ \A i \in 1..(Len(sequence) - 1) :
              Dist(sequence[i + 1], goal) = Dist(sequence[i], goal) - 1
        /\ \A i, j \in 1..Len(sequence) : (i # j) => (sequence[i] # sequence[j])
        /\ (pc = "loop") =>
              /\ sequence[1] = origin
              /\ sequence[Len(sequence)] = combo
              /\ Len(sequence) - 1 + Dist(combo, goal) = Dist(origin, goal)
        /\ (pc = "returned" /\ origin # goal) =>
              /\ combo = goal
              /\ Len(result) - 1 = Dist(origin, goal)

LongWalkReturned ==
    /\ pc = "returned"
    /\ origin # goal
    /\ Dist(origin, goal) >= 3
    /\ Len(result) - 1 = Dist(origin, goal)

\* C10: when an origin and a goal exist, every coordinate of the walk lies
\* in the rectangle spanned by them and in the grid, every table entry
\* find_next reads has in-range, non-negative indexes, and the table is the
\* one built from the cog set.
InRangeInvariant ==
    /\ combos = BuildCombos(FRONT_COGS, REAR_COGS)
    /\ (origin # None /\ goal # None /\ ScanComplete) =>
          /\ \A i \in 1..Len(sequence) : InRect(sequence[i]) /\ InGrid(sequence[i])
          /\ (combo # None) => (InRect(combo) /\ InGrid(combo))
          /\ \A p \in lookups : InRect(p) /\ InGrid(p)
          /\ err # "IndexError"

TableReadInRange ==
    /\ pc = "returned"
    /\ lookups # {}
    /\ \E p \in lookups : p \notin Range(result)

====
